---- MODULE Spec2Model ----
(***************************************************************************)
(* payqr: the template field model and payload renderer                    *)
(* (src/src/payqr/templates.py, class TemplateManager), and the            *)
(* application that switches and auto-saves templates                      *)
(* (src/src/gui/ui.py, class PayQRApp).                                    *)
(*                                                                         *)
(* A string is a sequence of tokens, so that concatenation is \o and the   *)
(* empty string is <<>>.  A parsed TOML value / Python object is a record  *)
(* with a kind; a dict is an insertion-ordered sequence of entries.        *)
(***************************************************************************)
EXTENDS Integers, Sequences, FiniteSets, TLC

(***************************************************************************)
(* Bounds of the checked input space.                                      *)
(***************************************************************************)
MaxConfigFields == 2
MaxTemplateFields == 2
MaxOverrides == 2

(***************************************************************************)
(* Python values.                                                          *)
(***************************************************************************)
StrV(str) == [kind |-> "str", s |-> str, b |-> FALSE, ent |-> <<>>, items |-> <<>>]
BoolV(bool) == [kind |-> "bool", s |-> <<>>, b |-> bool, ent |-> <<>>, items |-> <<>>]
NoneV == [kind |-> "none", s |-> <<>>, b |-> FALSE, ent |-> <<>>, items |-> <<>>]
DictV(entries) == [kind |-> "dict", s |-> <<>>, b |-> FALSE, ent |-> entries, items |-> <<>>]
ListV(elems) == [kind |-> "list", s |-> <<>>, b |-> FALSE, ent |-> <<>>, items |-> elems]

E(n, v) == [name |-> n, val |-> v]

\* isinstance(v, dict), isinstance(v, list)
IsDict(v) == v.kind = "dict"
IsList(v) == v.kind = "list"

\* name in d, for the entries d of a dict
Has(d, n) == \E i \in 1..Len(d) : d[i].name = n

IndexOf(d, n) == CHOOSE i \in 1..Len(d) : d[i].name = n

\* d.get(n, default)
Get(d, n, default) == IF Has(d, n) THEN d[IndexOf(d, n)].val ELSE default

\* a plausible bug: assigning to an existing name moves it to the end
PutLast(d, n, v) ==
  LET others == [k \in 1..Len(d) |-> k]
      keep(k) == d[k].name # n
      rest == SelectSeq(others, keep)
  IN Append([k \in 1..Len(rest) |-> d[rest[k]]], E(n, v))

\* d[n] = v : an existing name keeps its position, a new one goes last
Put(d, n, v) ==
  IF Has(d, n) THEN [d EXCEPT ![IndexOf(d, n)] = E(n, v)] ELSE Append(d, E(n, v))

\* "key" in item or "value" in item, for a dict item
FieldShaped(item) == IsDict(item) /\ (Has(item.ent, "key") \/ Has(item.ent, "value"))

SettingKeys == <<"separator", "kv_sep", "trim_empty">>
IsSettingKey(n) == \E i \in 1..Len(SettingKeys) : SettingKeys[i] = n

(***************************************************************************)
(* str(), repr(), bool() of a value.                                       *)
(***************************************************************************)
RECURSIVE PyRepr(_)
RECURSIVE ReprEntries(_, _)
RECURSIVE ReprItems(_, _)
ReprEntries(d, i) ==
  IF i > Len(d) THEN <<>>
  ELSE (IF i > 1 THEN <<", ">> ELSE <<>>) \o <<"'", d[i].name, "'", ": ">>
       \o PyRepr(d[i].val) \o ReprEntries(d, i + 1)
ReprItems(l, i) ==
  IF i > Len(l) THEN <<>>
  ELSE (IF i > 1 THEN <<", ">> ELSE <<>>) \o PyRepr(l[i]) \o ReprItems(l, i + 1)
PyRepr(v) ==
  CASE v.kind = "str" -> <<"'">> \o v.s \o <<"'">>
    [] v.kind = "bool" -> IF v.b THEN <<"True">> ELSE <<"False">>
    [] v.kind = "none" -> <<"None">>
    [] v.kind = "dict" -> <<"{">> \o ReprEntries(v.ent, 1) \o <<"}">>
    [] v.kind = "list" -> <<"[">> \o ReprItems(v.items, 1) \o <<"]">>

PyStr(v) == IF v.kind = "str" THEN v.s ELSE PyRepr(v)

PyBool(v) ==
  CASE v.kind = "str" -> v.s # <<>>
    [] v.kind = "bool" -> v.b
    [] v.kind = "none" -> FALSE
    [] v.kind = "dict" -> v.ent # <<>>
    [] v.kind = "list" -> v.items # <<>>

\* hashable values can be looked up in a dict or put in a set
Hashable(v) == v.kind \in {"str", "bool", "none"}

(***************************************************************************)
(* TemplateManager._merge_config_and_template                              *)
(***************************************************************************)
RECURSIVE CopySettings(_, _, _)
CopySettings(config, merged, i) ==
  IF i > Len(SettingKeys) THEN merged
  ELSE CopySettings(config,
         IF Has(config, SettingKeys[i])
           THEN Put(merged, SettingKeys[i], Get(config, SettingKeys[i], NoneV))
           ELSE merged,
         i + 1)

RECURSIVE AddConfigFields(_, _, _)
AddConfigFields(config, merged, i) ==
  IF i > Len(config) THEN merged
  ELSE AddConfigFields(config,
         IF ~IsSettingKey(config[i].name) /\ FieldShaped(config[i].val)
           THEN Put(merged, config[i].name, config[i].val)
           ELSE merged,
         i + 1)

RECURSIVE AddTemplateFields(_, _, _)
AddTemplateFields(tpl, merged, i) ==
  IF i > Len(tpl) THEN merged
  ELSE AddTemplateFields(tpl,
         IF FieldShaped(tpl[i].val)
           THEN Put(merged, tpl[i].name, tpl[i].val)
           ELSE merged,
         i + 1)

\* a plausible bug: the template's fields are added before the config's
merge_template_first(config, tpl) ==
  AddConfigFields(config, AddTemplateFields(tpl, CopySettings(config, <<>>, 1), 1), 1)

merge_config_and_template(config, tpl) ==
  AddTemplateFields(tpl, AddConfigFields(config, CopySettings(config, <<>>, 1), 1), 1)

(***************************************************************************)
(* The separator, kv_sep and trim_empty properties.                        *)
(***************************************************************************)
separator(c) == Get(c, "separator", StrV(<<"|">>))
kv_sep(c) == Get(c, "kv_sep", StrV(<<":">>))
trim_empty(c) == PyBool(Get(c, "trim_empty", BoolV(TRUE)))

(***************************************************************************)
(* TemplateManager.get_fields                                              *)
(***************************************************************************)
CopyIfPresent(item, normalized, n) ==
  IF Has(item, n) THEN Put(normalized, n, Get(item, n, NoneV)) ELSE normalized

\* the record built for one entry of a [fields.Label] table
NormalizeGrouped(label, item) ==
  LET base == <<E("key", Get(item, "key", StrV(<<>>))),
                E("value", Get(item, "value", StrV(<<>>)))>>
      lab == IF Has(item, "label")
               THEN Put(base, "label", Get(item, "label", NoneV))
               ELSE Put(base, "label", StrV(<<label>>))
  IN DictV(CopyIfPresent(item, CopyIfPresent(item, lab, "required"), "pattern"))

\* the record built for one top-level [Label] table
NormalizeTop(label, item) ==
  LET base == <<E("key", Get(item, "key", StrV(<<>>))),
                E("value", Get(item, "value", StrV(<<>>))),
                E("label", Get(item, "label", StrV(<<label>>)))>>
  IN DictV(CopyIfPresent(item, CopyIfPresent(item, base, "required"), "pattern"))

RECURSIVE GroupedFields(_, _, _)
GroupedFields(fields, result, i) ==
  IF i > Len(fields) THEN result
  ELSE GroupedFields(fields,
         IF FieldShaped(fields[i].val)
           THEN Append(result, NormalizeGrouped(fields[i].name, fields[i].val.ent))
           ELSE result,
         i + 1)

RECURSIVE TopFields(_, _, _)
TopFields(c, result, i) ==
  IF i > Len(c) THEN result
  ELSE TopFields(c,
         IF ~IsSettingKey(c[i].name) /\ FieldShaped(c[i].val)
           THEN Append(result, NormalizeTop(c[i].name, c[i].val.ent))
           ELSE result,
         i + 1)

get_fields(c) ==
  LET fields == Get(c, "fields", NoneV)
      grouped == IF IsDict(fields) THEN GroupedFields(fields.ent, <<>>, 1) ELSE <<>>
  IN IF IsList(fields) THEN fields.items
     ELSE IF grouped # <<>> THEN grouped
     ELSE TopFields(c, <<>>, 1)

(***************************************************************************)
(* TemplateManager.render_payload                                          *)
(*                                                                         *)
(* overrides is a dict whose keys are strings; exc names the exception a   *)
(* call raises ("" when it returns).                                       *)
(***************************************************************************)
Segment(name, kv, value) == PyStr(name) \o PyStr(kv) \o PyStr(value)

\* a plausible bug: the stored default is used whatever the overrides say
OverridesGetStored(ov, field_key, default) == default

\* overrides.get(field_key, default), for a hashable field_key
OverridesGet(ov, field_key, default) ==
  IF field_key.kind = "str" /\ Has(ov, field_key.s)
    THEN Get(ov, field_key.s, NoneV)
    ELSE default

\* a plausible bug: an empty value is rendered as a segment with no value
TrimsFieldNever(c, value) == FALSE

\* self.trim_empty and str(value) == ""
TrimsField(c, value) == trim_empty(c) /\ PyStr(value) = <<>>

\* a plausible bug: only None is trimmed from the extras, "" is not
TrimsExtraNoneOnly(c, v) == trim_empty(c) /\ v.kind = "none"

\* self.trim_empty and (v is None or str(v) == "")
TrimsExtra(c, v) == trim_empty(c) /\ (v.kind = "none" \/ PyStr(v) = <<>>)

\* one pass of the loop over get_fields(), from out/seen/exc in st
RECURSIVE RenderFields(_, _, _, _, _)
RenderFields(c, items, ov, st, i) ==
  IF i > Len(items) \/ st.exc # "" THEN st
  ELSE
    LET item == items[i] IN
    IF ~IsDict(item) THEN [st EXCEPT !.exc = "TypeError"]
    ELSE IF ~Has(item.ent, "key") THEN [st EXCEPT !.exc = "KeyError"]
    ELSE
      LET field_key == Get(item.ent, "key", NoneV)
          default == Get(item.ent, "value", StrV(<<>>))
      IN
      IF ~Hashable(field_key) THEN [st EXCEPT !.exc = "TypeError"]
      ELSE
        LET got == OverridesGet(ov, field_key, default)
            value == IF got.kind = "none" THEN StrV(<<>>) ELSE got
        IN
        IF TrimsField(c, value)
          THEN RenderFields(c, items, ov, st, i + 1)
          ELSE RenderFields(c, items, ov,
                 [st EXCEPT !.out = Append(@, Segment(field_key, kv_sep(c), value)),
                            !.seen = @ \cup {field_key}],
                 i + 1)

\* a plausible bug: the loop over the overrides does not consult seen
RECURSIVE RenderExtrasIgnoringSeen(_, _, _, _)
RenderExtrasIgnoringSeen(c, ov, st, i) ==
  IF i > Len(ov) THEN st
  ELSE IF TrimsExtra(c, ov[i].val)
    THEN RenderExtrasIgnoringSeen(c, ov, st, i + 1)
    ELSE RenderExtrasIgnoringSeen(c, ov,
           [st EXCEPT !.out = Append(@, Segment(StrV(ov[i].name), kv_sep(c), ov[i].val))],
           i + 1)

\* the loop over overrides.items() that appends the keys not seen
RECURSIVE RenderExtras(_, _, _, _)
RenderExtras(c, ov, st, i) ==
  IF i > Len(ov) THEN st
  ELSE
    LET k == ov[i].name
        v == ov[i].val
    IN
    IF StrV(k) \in st.seen THEN RenderExtras(c, ov, st, i + 1)
    ELSE IF TrimsExtra(c, v)
      THEN RenderExtras(c, ov, st, i + 1)
      ELSE RenderExtras(c, ov,
             [st EXCEPT !.out = Append(@, Segment(StrV(k), kv_sep(c), v))],
             i + 1)

\* sep.join(out)
RECURSIVE JoinFrom(_, _, _, _)
JoinFrom(sep, segs, acc, i) ==
  IF i > Len(segs) THEN acc
  ELSE JoinFrom(sep, segs, IF i = 1 THEN segs[1] ELSE acc \o sep \o segs[i], i + 1)

\* a plausible bug: the separator ends every segment
JoinTrailing(sep, segs) ==
  JoinFrom(<<>>, [n \in 1..Len(segs) |-> segs[n] \o sep], <<>>, 1)

Join(sep, segs) == JoinFrom(sep, segs, <<>>, 1)

render_payload(c, ov, extras) ==
  LET start == [out |-> <<>>, seen |-> {}, exc |-> ""]
      declared == RenderFields(c, get_fields(c), ov, start, 1)
      all == IF declared.exc = "" /\ extras
               THEN RenderExtras(c, ov, declared, 1)
               ELSE declared
  IN IF all.exc # "" THEN [exc |-> all.exc, out |-> all.out, payload |-> <<>>]
     ELSE IF separator(c).kind # "str"
       THEN [exc |-> "AttributeError", out |-> all.out, payload |-> <<>>]
       ELSE [exc |-> "", out |-> all.out, payload |-> Join(separator(c).s, all.out)]

(***************************************************************************)
(* The input space: documents as tomllib.load returns them (a dict in      *)
(* document order), and the override maps callers pass.                    *)
(***************************************************************************)
FieldTable(k, v) == DictV(<<E("key", StrV(k)), E("value", StrV(v))>>)

NoRepeatedName(d) == \A i, j \in 1..Len(d) : d[i].name = d[j].name => i = j

\* the dicts of at most n entries of pool, in every order, no name twice
RECURSIVE NamedSeqs(_, _)
NamedSeqs(pool, n) ==
  IF n = 0 THEN {<<>>}
  ELSE LET shorter == NamedSeqs(pool, n - 1)
           longer == {Append(q, e) : q \in {r \in shorter : Len(r) = n - 1}, e \in pool}
       IN shorter \cup {d \in longer : NoRepeatedName(d)}

\* a config that leaves the settings to their defaults, and one that sets
\* all three and also holds a table that declares no field
DefaultSettings == <<>>
CustomSettings ==
  <<E("separator", StrV(<<";">>)), E("kv_sep", StrV(<<"=">>)), E("trim_empty", BoolV(FALSE)),
    E("Meta", DictV(<<E("title", StrV(<<"IPS">>))>>))>>

ConfigPool ==
  { E("IdentificationCode", FieldTable(<<"K">>, <<"PR">>)),
    E("Amount", FieldTable(<<"RSD">>, <<>>)) }

Configs ==
  {st \o f : st \in {DefaultSettings, CustomSettings},
             f \in NamedSeqs(ConfigPool, MaxConfigFields)}

TemplatePool ==
  { E("Amount", FieldTable(<<"RSD">>, <<"RSD9000,00">>)),
    E("Payer", DictV(<<E("key", StrV(<<"K">>)), E("label", StrV(<<"Payer name">>)),
                       E("required", BoolV(TRUE))>>)),
    E("Ref", DictV(<<E("value", StrV(<<"97">>))>>)) }

\* the logical field sets a template declares
FieldSets == NamedSeqs(TemplatePool, MaxTemplateFields)

\* the three document shapes of one logical field set
FlatDoc(F) == F
ArrayDoc(F) == <<E("fields", ListV([i \in 1..Len(F) |-> F[i].val]))>>
GroupedDoc(F) == <<E("fields", DictV(F))>>
ShapeDoc(shape, F) ==
  CASE shape = "array" -> ArrayDoc(F)
    [] shape = "grouped" -> GroupedDoc(F)
    [] shape = "flat" -> FlatDoc(F)
Shapes == {"array", "grouped", "flat"}

\* further top-level entries a template can carry next to flat fields
ExtraEntries ==
  { E("fields", ListV(<<>>)),
    E("fields", DictV(<<E("key", FieldTable(<<"Q">>, <<"7">>))>>)),
    E("separator", StrV(<<"#">>)),
    E("separator", FieldTable(<<"S">>, <<"v">>)),
    E("kv_sep", FieldTable(<<"S">>, <<"v">>)),
    E("trim_empty", FieldTable(<<"S">>, <<"v">>)) }

Templates ==
  {ShapeDoc(sh, F) : sh \in Shapes, F \in FieldSets}
  \cup {<<x>> \o F : x \in ExtraEntries,
                      F \in {<<>>, <<E("Amount", FieldTable(<<"RSD">>, <<"RSD9000,00">>))>>}}

OverridePool ==
  { E(<<"RSD">>, StrV(<<>>)), E(<<"RSD">>, StrV(<<"RSD1">>)),
    E(<<"X">>, StrV(<<"1">>)), E(<<"X">>, NoneV) }

OverrideMaps == NamedSeqs(OverridePool, MaxOverrides)

\* {f["key"]: f["value"] for f in fields}: what a form pre-filled with the
\* defaults submits
RECURSIVE DefaultsFrom(_, _, _)
DefaultsFrom(items, ov, i) ==
  IF i > Len(items) THEN ov
  ELSE DefaultsFrom(items,
         IF IsDict(items[i]) /\ Get(items[i].ent, "key", NoneV).kind = "str"
           THEN Put(ov, Get(items[i].ent, "key", NoneV).s,
                        Get(items[i].ent, "value", StrV(<<>>)))
           ELSE ov,
         i + 1)

\* the override map of a form that was left as it was filled in
DefaultOverrides(c) == DefaultsFrom(get_fields(c), <<>>, 1)

(***************************************************************************)
(* State: the TemplateManager's attributes, and the last call with its     *)
(* arguments and result.                                                   *)
(***************************************************************************)
VARIABLES
  config,          \* self._config
  template,        \* self._template
  cfg,             \* self._cfg
  op,              \* the last call or handler: "init", "get_fields", "render_payload",
                   \* "app_init", "edit", "on_generate", "on_template_change"
  overrides,       \* render_payload's overrides argument
  include_extras,  \* render_payload's include_extras argument
  fields,          \* what get_fields returned to the last call
  out,             \* render_payload's out list when it ended
  payload,         \* the string render_payload returned
  exc,             \* the exception the last call raised, "" if none
  templates_dir,   \* PayQRApp: the files of ~/.payqr/templates, by stem
  template_names,  \* PayQRApp.template_names
  current_template,\* PayQRApp.current_template
  template_path,   \* PayQRApp.template_mgr.template_path, as a stem
  field_vars,      \* PayQRApp.vars: the form's variables by field key
  original_values, \* PayQRApp.original_values
  modified_var,    \* PayQRApp.modified_var
  currency_var,    \* PayQRApp.currency_var
  result           \* the result of the "Save Template As" dialog

appVars == <<templates_dir, template_names, current_template, template_path,
             field_vars, original_values, modified_var, currency_var, result>>

vars == <<config, template, cfg, op, overrides, include_extras, fields, out, payload, exc,
          appVars>>

\* a TemplateManager used on its own: there is no application around it
NoApp ==
  /\ templates_dir = <<>>
  /\ template_names = <<>>
  /\ current_template = ""
  /\ template_path = ""
  /\ field_vars = <<>>
  /\ original_values = <<>>
  /\ modified_var = FALSE
  /\ currency_var = <<>>
  /\ result = [save |-> FALSE, name |-> ""]

\* TemplateManager.__init__ on two parsed documents; no call made yet
Init ==
  /\ config \in Configs
  /\ template \in Templates
  /\ cfg = merge_config_and_template(config, template)
  /\ op = "init"
  /\ overrides = <<>>
  /\ include_extras = TRUE
  /\ fields = <<>>
  /\ out = <<>>
  /\ payload = <<>>
  /\ exc = ""
  /\ NoApp

GetFields ==
  /\ op' = "get_fields"
  /\ fields' = get_fields(cfg)
  /\ overrides' = <<>>
  /\ include_extras' = TRUE
  /\ out' = <<>>
  /\ payload' = <<>>
  /\ exc' = ""
  /\ UNCHANGED <<config, template, cfg, appVars>>

\* a plausible bug: the render writes the override values into the loaded
\* field tables
StoreOverrides(c, ov) ==
  [i \in 1..Len(c) |->
     LET k == IF IsDict(c[i].val) THEN Get(c[i].val.ent, "key", NoneV) ELSE NoneV
     IN IF FieldShaped(c[i].val) /\ k.kind = "str" /\ Has(ov, k.s)
          THEN E(c[i].name, DictV(Put(c[i].val.ent, "value", Get(ov, k.s, NoneV))))
          ELSE c[i]]

RenderPayloadStoring(ov, extras) ==
  \E r \in {render_payload(cfg, ov, extras)} :
  /\ op' = "render_payload"
  /\ overrides' = ov
  /\ include_extras' = extras
  /\ fields' = get_fields(cfg)
  /\ out' = r.out
  /\ payload' = r.payload
  /\ exc' = r.exc
  /\ cfg' = StoreOverrides(cfg, ov)
  /\ UNCHANGED <<config, template, appVars>>

RenderPayload(ov, extras) ==
  \E r \in {render_payload(cfg, ov, extras)} :
  /\ op' = "render_payload"
  /\ overrides' = ov
  /\ include_extras' = extras
  /\ fields' = get_fields(cfg)
  /\ out' = r.out
  /\ payload' = r.payload
  /\ exc' = r.exc
  /\ UNCHANGED <<config, template, cfg, appVars>>

\* render_payload is handed a map of at most MaxOverrides entries, or the
\* map of the defaults
Next ==
  \/ GetFields
  \/ \E ov \in OverrideMaps \cup {DefaultOverrides(cfg)}, extras \in BOOLEAN :
       RenderPayload(ov, extras)

Spec == Init /\ [][Next]_vars

(***************************************************************************)
(* What the claims speak of, stated from the arguments and the result of   *)
(* the last call.                                                          *)
(***************************************************************************)
Rendered == op = "render_payload" /\ exc = ""

KeyOf(item) == Get(item.ent, "key", NoneV)
StoredOf(item) == Get(item.ent, "value", StrV(<<>>))
Overridden(i) == \E j \in 1..Len(overrides) : StrV(overrides[j].name) = KeyOf(fields[i])
OverrideOf(i) ==
  overrides[CHOOSE j \in 1..Len(overrides) : StrV(overrides[j].name) = KeyOf(fields[i])].val

\* the resolved value of declared field i, as a string
ResolvedText(i) ==
  IF Overridden(i)
    THEN (IF OverrideOf(i).kind = "none" THEN <<>> ELSE PyStr(OverrideOf(i)))
    ELSE PyStr(StoredOf(fields[i]))

\* declared field i is emitted
Emitted(i) == ~(trim_empty(cfg) /\ ResolvedText(i) = <<>>)

\* override j is an extra that is emitted
ExtraText(j) == PyStr(overrides[j].val)
ExtraEmitted(j) ==
  /\ include_extras
  /\ ~\E i \in 1..Len(fields) : Emitted(i) /\ KeyOf(fields[i]) = StrV(overrides[j].name)
  /\ ~(trim_empty(cfg) /\ (overrides[j].val.kind = "none" \/ ExtraText(j) = <<>>))

KvText == PyStr(kv_sep(cfg))
DeclaredSegment(i) == PyStr(KeyOf(fields[i])) \o KvText \o ResolvedText(i)
ExtraSegment(j) == overrides[j].name \o KvText \o ExtraText(j)

\* the indices 1..n that pass Keep, in increasing order
Kept(n, Keep(_)) ==
  LET S == {i \in 1..n : Keep(i)}
  IN [k \in 1..Cardinality(S) |-> CHOOSE i \in S : Cardinality({j \in S : j <= i}) = k]

ExpectedSegments ==
  LET d == Kept(Len(fields), Emitted)
      x == Kept(Len(overrides), ExtraEmitted)
  IN [n \in 1..Len(d) |-> DeclaredSegment(d[n])] \o [n \in 1..Len(x) |-> ExtraSegment(x[n])]

\* the segments with sep between each two neighbours and nowhere else
RECURSIVE Joined(_, _)
Joined(sep, segs) ==
  IF segs = <<>> THEN <<>>
  ELSE IF Len(segs) = 1 THEN segs[1]
  ELSE segs[1] \o sep \o Joined(sep, Tail(segs))

ScenarioA ==
  /\ config = <<E("IdentificationCode", FieldTable(<<"K">>, <<"PR">>))>>
  /\ template = <<E("Amount", FieldTable(<<"RSD">>, <<"RSD9000,00">>))>>

\* C1: a render that returns, returns the segments key + kv_sep + resolved
\* value of the declared fields that are not trimmed, in get_fields order,
\* then the extras, with the separator between neighbours only; Scenario A
\* with no overrides renders K:PR|RSD:RSD9000,00.
C1_RenderedPayload ==
  Rendered =>
    /\ payload = Joined(PyStr(separator(cfg)), ExpectedSegments)
    /\ (ScenarioA /\ overrides = <<>>) =>
         payload = <<"K", ":", "PR", "|", "RSD", ":", "RSD9000,00">>

C1_Witness ==
  /\ Rendered
  /\ ScenarioA
  /\ overrides = <<>>
  /\ payload = <<"K", ":", "PR", "|", "RSD", ":", "RSD9000,00">>

(***************************************************************************)
(* The field declarations of a document in the flat convention: its        *)
(* top-level tables holding a key or a value, settings names apart.        *)
(***************************************************************************)
FlatFields(doc) ==
  LET declares(e) == ~IsSettingKey(e.name) /\ FieldShaped(e.val)
  IN SelectSeq(doc, declares)

\* key, value and label of a record get_fields returned
RecordView(item) ==
  <<Get(item.ent, "key", NoneV), Get(item.ent, "value", NoneV), Get(item.ent, "label", NoneV)>>

\* key, value and label a flat declaration stands for
DeclarationView(e) ==
  <<Get(e.val.ent, "key", StrV(<<>>)), Get(e.val.ent, "value", StrV(<<>>)),
    Get(e.val.ent, "label", StrV(<<e.name>>))>>

DisjointLabels ==
  \A i \in 1..Len(FlatFields(config)), j \in 1..Len(FlatFields(template)) :
    FlatFields(config)[i].name # FlatFields(template)[j].name

C3_OverridePrecedence ==
  Rendered =>
    \A i \in 1..Len(fields) :
      (Overridden(i) /\ Emitted(i)) =>
        LET n == Cardinality({j \in 1..i : Emitted(j)})
            text == IF OverrideOf(i).kind = "none" THEN <<>> ELSE PyStr(OverrideOf(i))
        IN /\ n <= Len(out)
           /\ out[n] = PyStr(KeyOf(fields[i])) \o KvText \o text
           /\ text # PyStr(StoredOf(fields[i])) =>
                out[n] # PyStr(KeyOf(fields[i])) \o KvText \o PyStr(StoredOf(fields[i]))

C3_Witness ==
  /\ Rendered
  /\ \E i \in 1..Len(fields) :
       /\ Overridden(i)
       /\ OverrideOf(i) = StrV(<<"RSD1">>)
       /\ StoredOf(fields[i]) = StrV(<<"RSD9000,00">>)
       /\ \E n \in 1..Len(out) : out[n] = <<"RSD">> \o KvText \o <<"RSD1">>

\* C4: with trim_empty on, every segment of the output carries a non-empty
\* value, and a declared field or override whose resolved value is empty
\* leaves nothing in it, not even its key; Scenario A with RSD overridden by
\* "" renders K:PR.
C4_TrimEmpty ==
  (Rendered /\ trim_empty(cfg)) =>
    /\ \A n \in 1..Len(out) :
         \/ \E i \in 1..Len(fields) :
              ResolvedText(i) # <<>> /\ out[n] = DeclaredSegment(i)
         \/ \E j \in 1..Len(overrides) :
              /\ include_extras
              /\ overrides[j].val.kind # "none"
              /\ ExtraText(j) # <<>>
              /\ out[n] = ExtraSegment(j)
    /\ \A i \in 1..Len(fields) :
         ResolvedText(i) = <<>> =>
           \A n \in 1..Len(out) : out[n] # PyStr(KeyOf(fields[i])) \o KvText
    /\ \A j \in 1..Len(overrides) :
         (overrides[j].val.kind = "none" \/ ExtraText(j) = <<>>) =>
           \A n \in 1..Len(out) :
             /\ out[n] # overrides[j].name \o KvText
             /\ out[n] # ExtraSegment(j)
    /\ (ScenarioA /\ overrides = <<E(<<"RSD">>, StrV(<<>>))>>) =>
         payload = <<"K", ":", "PR">>

C4_Witness ==
  /\ Rendered
  /\ trim_empty(cfg)
  /\ ScenarioA
  /\ overrides = <<E(<<"RSD">>, StrV(<<>>))>>
  /\ payload = <<"K", ":", "PR">>

\* the override map holds, for every declared field, its key with its own
\* stored default, and nothing else
OwnDefaults ==
  /\ \A i \in 1..Len(fields) :
       /\ KeyOf(fields[i]).kind = "str"
       /\ Overridden(i)
       /\ OverrideOf(i) = StoredOf(fields[i])
  /\ \A j \in 1..Len(overrides) :
       \E i \in 1..Len(fields) : KeyOf(fields[i]) = StrV(overrides[j].name)

\* C5: rendering with every declared key overridden by its own default
\* returns the string that rendering with no overrides returns.
C5_DefaultsAreNeutral ==
  (Rendered /\ OwnDefaults) =>
    /\ render_payload(cfg, <<>>, include_extras).exc = ""
    /\ payload = render_payload(cfg, <<>>, include_extras).payload

C5_Witness ==
  /\ Rendered
  /\ OwnDefaults
  /\ Len(overrides) = 2
  /\ trim_empty(cfg)
  /\ \E i \in 1..Len(fields) : StoredOf(fields[i]) = StrV(<<>>)
  /\ payload # <<>>

\* override j names no declared field that was emitted
NotSeen(j) ==
  ~\E i \in 1..Len(fields) : Emitted(i) /\ KeyOf(fields[i]) = StrV(overrides[j].name)

ExtraPasses(j) ==
  NotSeen(j) /\ ~(trim_empty(cfg) /\ (overrides[j].val.kind = "none" \/ ExtraText(j) = <<>>))

\* C6: with include_extras on, the segments after the declared ones are the
\* overrides whose key was not seen, trimmed by the same rule, in the
\* override map's order; with include_extras off the output ends with the
\* declared segments and holds no such key.  Scenario A with X = "1" renders
\* K:PR|RSD:RSD9000,00|X:1.
C6_ExtrasAppended ==
  Rendered =>
    LET nd == Cardinality({i \in 1..Len(fields) : Emitted(i)})
        x == Kept(Len(overrides), ExtraPasses)
    IN /\ include_extras =>
            /\ Len(out) = nd + Len(x)
            /\ \A n \in 1..Len(x) : out[nd + n] = ExtraSegment(x[n])
       /\ ~include_extras =>
            /\ Len(out) = nd
            /\ \A j \in 1..Len(overrides) :
                 NotSeen(j) => \A n \in 1..Len(out) : out[n] # ExtraSegment(j)
       /\ (ScenarioA /\ include_extras /\ overrides = <<E(<<"X">>, StrV(<<"1">>))>>) =>
            payload = <<"K", ":", "PR", "|", "RSD", ":", "RSD9000,00", "|", "X", ":", "1">>

C6_Witness ==
  /\ Rendered
  /\ include_extras
  /\ overrides = <<E(<<"X">>, StrV(<<"1">>)), E(<<"RSD">>, StrV(<<"RSD1">>))>>
  /\ NotSeen(1) /\ NotSeen(2)
  /\ Len(out) = 3
  /\ out[2] = <<"X">> \o KvText \o <<"1">>
  /\ out[3] = <<"RSD">> \o KvText \o <<"RSD1">>

\* the document gives `fields` as an empty array
GivesEmptyArray(doc) ==
  /\ Has(doc, "fields")
  /\ IsList(Get(doc, "fields", NoneV))
  /\ Get(doc, "fields", NoneV).items = <<>>

\* C7: when a loaded document gives `fields` as an empty array, get_fields
\* returns the empty sequence, whatever field tables stand at the top level.
C7_EmptyArrayYieldsNothing ==
  (op = "get_fields" /\ (GivesEmptyArray(config) \/ GivesEmptyArray(template))) =>
    fields = <<>>

\* keys and values of a sequence of field records, in order
KeysValues(items) ==
  [i \in 1..Len(items) |->
     <<Get(items[i].ent, "key", StrV(<<>>)), Get(items[i].ent, "value", StrV(<<>>))>>]

\* C8: a template that writes a field set in one of the three shapes
\* normalizes, after merging, to the keys and values, in the order, that the
\* same field set written in either other shape normalizes to.
C8_ShapesAgree ==
  op = "get_fields" =>
    \A F \in FieldSets, sh \in Shapes :
      template = ShapeDoc(sh, F) =>
        \A other \in Shapes :
          KeysValues(fields) =
            KeysValues(get_fields(merge_config_and_template(config, ShapeDoc(other, F))))

\* the labels of the merged structure that are no setting, in its order
MergedLabels ==
  LET idx == [k \in 1..Len(cfg) |-> k]
      field(k) == ~IsSettingKey(cfg[k].name)
      kept == SelectSeq(idx, field)
  IN [k \in 1..Len(kept) |-> cfg[kept[k]].name]

\* config field i has a label that a field table of the template also has
Collides(i) ==
  /\ Has(template, FlatFields(config)[i].name)
  /\ FieldShaped(Get(template, FlatFields(config)[i].name, NoneV))

\* C9: a label declared by a config field and by a template field has one
\* entry in the merged structure, holding the template's table, at the
\* config field's position; the config fields stay first, in config order, and
\* get_fields returns the template's content at that position.
C9_CollisionKeepsPosition ==
  LET cf == FlatFields(config) IN
  \A i \in 1..Len(cf) :
    Collides(i) =>
      /\ Cardinality({k \in 1..Len(cfg) : cfg[k].name = cf[i].name}) = 1
      /\ Get(cfg, cf[i].name, NoneV) = Get(template, cf[i].name, NoneV)
      /\ Len(MergedLabels) >= Len(cf)
      /\ \A k \in 1..Len(cf) : MergedLabels[k] = cf[k].name
      /\ (op = "get_fields" /\ ~Has(cfg, "fields")) =>
           RecordView(fields[i]) =
             DeclarationView(E(cf[i].name, Get(template, cf[i].name, NoneV)))

C9_Witness ==
  /\ op = "get_fields"
  /\ Len(FlatFields(config)) = 2
  /\ Collides(1)
  /\ ~Collides(2)
  /\ Len(fields) = 3
  /\ Get(fields[1].ent, "value", NoneV) = StrV(<<"RSD9000,00">>)
  /\ Get(fields[1].ent, "label", NoneV) = StrV(<<"Amount">>)
  /\ Get(fields[2].ent, "label", NoneV) = StrV(<<"IdentificationCode">>)

\* C10: the three settings are the config's values where the config declares
\* them and "|", ":" and true where it does not, whatever the template holds.
C10_SettingsFromConfig ==
  /\ separator(cfg) =
       (IF Has(config, "separator") THEN Get(config, "separator", NoneV) ELSE StrV(<<"|">>))
  /\ kv_sep(cfg) =
       (IF Has(config, "kv_sep") THEN Get(config, "kv_sep", NoneV) ELSE StrV(<<":">>))
  /\ trim_empty(cfg) =
       (IF Has(config, "trim_empty") THEN Get(config, "trim_empty", NoneV).b ELSE TRUE)

(***************************************************************************)
(* PayQRApp (src/src/gui/ui.py): the template files of the user's          *)
(* directory, the form, the template switch and the auto-save.  The        *)
(* application's TemplateManager is held in config, template and cfg, and  *)
(* the file it was loaded from in template_path.                           *)
(***************************************************************************)
\* the stems a template file can have, in the order sorted() lists them
NameOrder == <<"default", "gas", "rent">>
Names == {NameOrder[i] : i \in 1..Len(NameOrder)}

\* a file of the directory: missing, not parseable as TOML, or a document
NoFile == [kind |-> "absent", doc |-> <<>>]
BadToml == [kind |-> "invalid", doc |-> <<>>]
TomlFile(d) == [kind |-> "toml", doc |-> d]

\* the bundled config.toml and the documents the user's files start with;
\* a currency code is a token of its own
AppConfig == <<E("IdentificationCode", FieldTable(<<"K">>, <<"PR">>))>>
AppTemplates ==
  { <<E("Amount", FieldTable(<<"RSD">>, <<"RSD", "9000,00">>))>>,
    <<E("Purpose", FieldTable(<<"SF">>, <<"289">>))>> }
FileStates == {NoFile, BadToml} \cup {TomlFile(d) : d \in AppTemplates}

\* what the user types into an entry
Typed == {<<>>, <<"1">>, <<"\"">>}

InSeq(q, x) == \E i \in 1..Len(q) : q[i] = x

\* [f.stem for f in sorted(glob("*.toml")) if f.name != "config.toml"]
ListTemplates(dir) == SelectSeq(NameOrder, LAMBDA n : dir[n].kind # "absent")

\* "default" if present, else the first name
default_template(names) == IF InSeq(names, "default") THEN "default" ELSE names[1]

LabelOf(item) == Get(item.ent, "label", NoneV)
HasLabel(item, labels) == \E l \in labels : LabelOf(item) = StrV(<<l>>)

\* re.match(r"^([A-Z]{3})(.+)$", value): the currency shown next to the amount
CurrencyCodes == {"RSD", "EUR"}
CurrencyOf(value) ==
  IF Len(value) >= 2 /\ value[1] \in CurrencyCodes THEN <<value[1]>> ELSE <<"RSD">>

\* self.currency_var once the form is built: None without an Amount field
CurrencyVar(items) ==
  LET amounts == SelectSeq(items, LAMBDA f : HasLabel(f, {"Amount"}))
  IN IF amounts = <<>> THEN <<>>
     ELSE CurrencyOf(PyStr(StoredOf(amounts[Len(amounts)])))

\* the fields whose entries are read-only, and which auto-save leaves out
readonly_fields == {"IdentificationCode", "Version", "CodeSet"}

\* any(self.vars[k].get() != self.original_values.get(k, "") for k in self.vars)
Modified(v, orig) ==
  \E i \in 1..Len(v) : v[i].val # Get(orig, v[i].name, StrV(<<>>))

\* the document tomllib reads from the text auto-save writes: one table per
\* field that is not read-only, with the key, the form's value and
\* required = true; no document if a quote inside a key or value ends the
\* string early.  The labels of AppTemplates are bare TOML keys.
SavedFields(items) == SelectSeq(items, LAMBDA f : ~HasLabel(f, readonly_fields))
WrittenTable(f, v) ==
  E(PyStr(LabelOf(f))[1],
    DictV(<<E("key", KeyOf(f)),
            E("value", Get(v, PyStr(KeyOf(f)), NoneV)),
            E("required", BoolV(TRUE))>>))
BreaksString(str) == \E i \in 1..Len(str) : str[i] = "\""
WrittenFile(items, v) ==
  LET saved == SavedFields(items)
      tables == [i \in 1..Len(saved) |-> WrittenTable(saved[i], v)]
  IN IF \E i \in 1..Len(saved) :
          \/ BreaksString(PyStr(KeyOf(saved[i])))
          \/ BreaksString(PyStr(tables[i].val.ent[2].val))
       THEN BadToml
       ELSE TomlFile(tables)

\* self.vars[key] of a saved field is missing
MissingVar(items, v) ==
  \E i \in 1..Len(items) :
    ~HasLabel(items[i], readonly_fields) /\ ~Has(v, PyStr(KeyOf(items[i])))

NoAnswer == [save |-> FALSE, name |-> ""]

\* what the "Save Template As" dialog ends with: Cancel, or OK on a name
\* that is not in self.template_names
DialogAnswers(names) ==
  {NoAnswer} \cup {[save |-> TRUE, name |-> n] : n \in {m \in Names : ~InSeq(names, m)}}

\* the call record of a handler that renders nothing
NoRender ==
  /\ overrides' = <<>>
  /\ include_extras' = TRUE
  /\ fields' = <<>>
  /\ out' = <<>>
  /\ payload' = <<>>

\* PayQRApp.__init__ on a directory with at least one template file, the
\* first of which loads
InitApp ==
  /\ templates_dir \in [Names -> FileStates]
  /\ template_names = ListTemplates(templates_dir)
  /\ template_names # <<>>
  /\ current_template = default_template(template_names)
  /\ templates_dir[current_template].kind = "toml"
  /\ template_path = current_template
  /\ config = AppConfig
  /\ template = templates_dir[current_template].doc
  /\ cfg = merge_config_and_template(config, template)
  /\ field_vars = DefaultsFrom(get_fields(cfg), <<>>, 1)
  /\ original_values = field_vars
  /\ modified_var = FALSE
  /\ currency_var = CurrencyVar(get_fields(cfg))
  /\ result = NoAnswer
  /\ op = "app_init"
  /\ overrides = <<>>
  /\ include_extras = TRUE
  /\ fields = <<>>
  /\ out = <<>>
  /\ payload = <<>>
  /\ exc = ""

\* the user types text into the entry of field number i of the form; the
\* Amount entry is combined with the currency; then _check_modified
EditField(i, text) ==
  LET items == get_fields(cfg)
  IN /\ i \in 1..Len(items)
     /\ ~HasLabel(items[i], readonly_fields)
     /\ op' = "edit"
     /\ field_vars' = Put(field_vars, PyStr(KeyOf(items[i])),
                          StrV(IF HasLabel(items[i], {"Amount"})
                                 THEN currency_var \o text ELSE text))
     /\ modified_var' = Modified(field_vars', original_values)
     /\ exc' = ""
     /\ NoRender
     /\ UNCHANGED <<config, template, cfg, templates_dir, template_names,
                    current_template, template_path, original_values,
                    currency_var, result>>

\* _save_template_if_modified, answer being what the dialog ends with
save_template_if_modified(answer) ==
  LET template_name == current_template
      asks == modified_var /\ template_name = "default"
      saves == modified_var /\ (asks => answer.save)
      items == get_fields(cfg)
      written == WrittenFile(items, field_vars)
      manager == <<config, template, cfg, template_path>>
  IN /\ IF asks THEN answer \in DialogAnswers(template_names) ELSE answer = NoAnswer
     /\ result' = answer
     /\ IF ~saves
          THEN /\ exc' = ""
               /\ UNCHANGED <<manager, templates_dir, template_names, current_template,
                              original_values, modified_var>>
          ELSE IF MissingVar(items, field_vars)
            THEN /\ exc' = "KeyError"
                 /\ UNCHANGED <<manager, templates_dir, template_names, current_template,
                                original_values, modified_var>>
          ELSE /\ templates_dir' = [templates_dir EXCEPT ![template_name] = written]
               /\ IF template_name # current_template
                    THEN /\ current_template' = template_name
                         /\ template_names' = ListTemplates(templates_dir')
                         /\ IF written.kind = "toml"
                              THEN /\ template_path' = template_name
                                   /\ template' = written.doc
                                   /\ cfg' = merge_config_and_template(config, written.doc)
                                   /\ original_values' = field_vars
                                   /\ modified_var' = FALSE
                                   /\ exc' = ""
                                   /\ UNCHANGED config
                              ELSE /\ exc' = "TOMLDecodeError"
                                   /\ UNCHANGED <<manager, original_values, modified_var>>
                    ELSE /\ original_values' = field_vars
                         /\ modified_var' = FALSE
                         /\ exc' = ""
                         /\ UNCHANGED <<manager, template_names, current_template>>

\* on_generate: render the form's values, then auto-save
OnGenerate(answer) ==
  \E r \in {render_payload(cfg, field_vars, TRUE)} :
  /\ op' = "on_generate"
  /\ overrides' = field_vars
  /\ include_extras' = TRUE
  /\ fields' = get_fields(cfg)
  /\ out' = r.out
  /\ payload' = r.payload
  /\ UNCHANGED <<field_vars, currency_var>>
  /\ IF r.exc # ""
       THEN /\ answer = NoAnswer
            /\ exc' = r.exc
            /\ UNCHANGED <<config, template, cfg, templates_dir, template_names,
                           current_template, template_path, original_values,
                           modified_var, result>>
       ELSE save_template_if_modified(answer)

\* on_template_change: the combobox offers self.template_names
OnTemplateChange(selected) ==
  /\ InSeq(template_names, selected)
  /\ op' = "on_template_change"
  /\ current_template' = selected
  /\ NoRender
  /\ UNCHANGED <<templates_dir, template_names, result>>
  /\ IF templates_dir[selected].kind # "toml"
       THEN /\ exc' = IF templates_dir[selected].kind = "absent"
                        THEN "FileNotFoundError" ELSE "TOMLDecodeError"
            /\ UNCHANGED <<config, template, cfg, template_path, field_vars,
                           original_values, modified_var, currency_var>>
       ELSE /\ exc' = ""
            /\ template_path' = selected
            /\ template' = templates_dir[selected].doc
            /\ cfg' = merge_config_and_template(config, template')
            /\ field_vars' = DefaultsFrom(get_fields(cfg'), <<>>, 1)
            /\ original_values' = field_vars'
            /\ modified_var' = FALSE
            /\ currency_var' = CurrencyVar(get_fields(cfg'))
            /\ UNCHANGED config

NextApp ==
  \/ \E i \in 1..2, text \in Typed : EditField(i, text)
  \/ \E answer \in DialogAnswers(template_names) : OnGenerate(answer)
  \/ \E selected \in Names : OnTemplateChange(selected)

SpecApp == InitApp /\ [][NextApp]_vars

(***************************************************************************)
(* Claims about the application, checked under SpecApp.                    *)
(***************************************************************************)
\* the step is a template switch whose load failed
FailedSwitch == op' = "on_template_change" /\ exc' # ""

\* C11: when loading the newly selected template fails during a template
\* switch, the switch is aborted: afterwards the template manager and the
\* current-template name both still refer to the template that was active
\* before.
C11_FailedSwitchKeepsPrevious ==
  [][FailedSwitch =>
       /\ template_path' = template_path
       /\ <<config', template', cfg'>> = <<config, template, cfg>>
       /\ current_template' = current_template]_vars

\* the step is an auto-save of a modified form while the current template
\* is default: the render returned and the dialog was shown
AutoSaveOnDefault ==
  /\ op' = "on_generate"
  /\ render_payload(cfg, field_vars, TRUE).exc = ""
  /\ modified_var
  /\ current_template = "default"

\* C15: auto-saving while the current template is default never overwrites
\* default.toml: after OK on a new name the form's values are written to
\* that name's file and the application switches to it, after Cancel no
\* file is written.
C15_DefaultNeverOverwritten ==
  [][AutoSaveOnDefault =>
       /\ templates_dir'["default"] = templates_dir["default"]
       /\ result'.save =>
            /\ templates_dir' = [templates_dir EXCEPT ![result'.name] =
                                   WrittenFile(get_fields(cfg), field_vars)]
            /\ current_template' = result'.name
       /\ ~result'.save => templates_dir' = templates_dir]_vars

(***************************************************************************)
(* Claims about the TemplateManager's calls, checked under Spec.           *)
(***************************************************************************)
\* C12: get_fields and render_payload are total: whatever the merged
\* structure and the override map, the call returns and raises nothing.
C12_CallsNeverRaise ==
  op \in {"get_fields", "render_payload"} => exc = ""

\* the merged structure as the constructor made it
Constructed == merge_config_and_template(config, template)

\* C13: a render changes nothing of the loaded state: no render step
\* changes the two documents or the merged structure, and after any calls
\* the merged structure, the three settings and what get_fields gives are
\* those of the structure the constructor made, so that a render with no
\* overrides returns what it returns on that structure.
C13_RenderLeavesStateAlone ==
  /\ [][op' = "render_payload" =>
          <<config', template', cfg'>> = <<config, template, cfg>>]_vars
  /\ [](/\ cfg = Constructed
        /\ <<separator(cfg), kv_sep(cfg), trim_empty(cfg)>>
             = <<separator(Constructed), kv_sep(Constructed), trim_empty(Constructed)>>
        /\ get_fields(cfg) = get_fields(Constructed)
        /\ (op = "render_payload" /\ overrides = <<>>) =>
             /\ fields = get_fields(Constructed)
             /\ <<exc, payload>> =
                  <<render_payload(Constructed, <<>>, include_extras).exc,
                    render_payload(Constructed, <<>>, include_extras).payload>>)

\* a render whose overrides changed the payload has returned, and the state
\* it leaves still renders something else without them
C13_Witness ==
  /\ Rendered
  /\ \E i \in 1..Len(fields) : Overridden(i) /\ Emitted(i)
  /\ render_payload(cfg, <<>>, include_extras).exc = ""
  /\ render_payload(cfg, <<>>, include_extras).payload # payload

\* segment seg carries key: it starts with the key and the kv separator
StartsWith(seg, p) == Len(seg) >= Len(p) /\ SubSeq(seg, 1, Len(p)) = p
Carries(seg, key) == StartsWith(seg, key \o KvText)
SegmentsOf(key) == {n \in 1..Len(out) : Carries(out[n], key)}

\* the keys a render deals with: those of the declared fields and those of
\* the overrides
RenderKeys ==
  {PyStr(KeyOf(fields[i])) : i \in 1..Len(fields)}
  \cup {overrides[j].name : j \in 1..Len(overrides)}

\* the place of declared field i among the emitted segments
PlaceOf(i) == Cardinality({h \in 1..i : Emitted(h)})

\* C14: in a rendered payload no two segments carry the same key, and an
\* override whose key is that of a declared field is emitted once, at that
\* field's place.
C14_KeysUnique ==
  Rendered =>
    /\ \A k \in RenderKeys : Cardinality(SegmentsOf(k)) <= 1
    /\ \A i \in 1..Len(fields) :
         (Overridden(i) /\ Emitted(i)) =>
           SegmentsOf(PyStr(KeyOf(fields[i]))) = {PlaceOf(i)}

====
